---- MODULE Spec2Model ----
(***************************************************************************)
(* Model of the blur kernel of src/src/fastblur.rs: gaussian_blur, the box *)
(* width planner create_box_gauss and the two sliding-window sweeps        *)
(* box_blur_horz and box_blur_vert.                                        *)
(*                                                                         *)
(* Numbers.  sigma is carried in quarters (sigma4 = 4 * sigma), so that    *)
(* every f32 operation of create_box_gauss on it is exact or is decided by *)
(* exact rational arithmetic.  A usize that wrapped below zero is carried  *)
(* as the negative integer it is congruent to; cast to isize that is its   *)
(* value, used as an index it is out of range.                             *)
(* The build decides what a usize underflow does: with overflow checks it  *)
(* panics, without them it wraps.  The variable checked is that choice.    *)
(***************************************************************************)
EXTENDS Integers, Sequences, FiniteSets

\* ------------------------------------------------------------- bounds
\* largest number of pixels (width * height) of a buffer, and largest side
MaxArea == 4
\* largest channel count of a blurred buffer
MaxChannels == 2
\* largest pass count handed to the planner on its own
MaxPasses == 3
\* largest sigma, in quarters, handed to the planner on its own (50.0)
MaxSigma4 == 200

\* channel values a buffer is filled with
Vals == {0, 100, 255}
\* sigma, in quarters, of the blurs: 0, 0.75, 1.0, 1.5
BlurSigmas == {0, 3, 4, 6}

VARIABLES
    channels,   \* CHANNELS, the const generic of gaussian_blur
    width,      \* width
    height,     \* height
    sigma4,     \* blur_radius (sigma), in quarters
    checked,    \* the build has overflow checks
    input,      \* data as the caller passed it
    data,       \* the caller's buffer
    backbuf,    \* the scratch buffer of gaussian_blur
    dataTag,    \* per pixel of data: the stage that wrote it last
    backTag,    \* per pixel of backbuf: the stage that wrote it last
    boxes,      \* the plan of create_box_gauss
    pass,       \* the pass of the loop of gaussian_blur, from 1
    pc,         \* "call", "horz", "vert", "done", "abort"
    err,        \* "none", "overflow" (a panic), "oob" (an access out of range)
    sweep       \* what the last sweep did

vars == <<channels, width, height, sigma4, checked, input, data, backbuf,
          dataTag, backTag, boxes, pass, pc, err, sweep>>

\* ------------------------------------------------------------ helpers
Min(a, b) == IF a < b THEN a ELSE b

Max(a, b) == IF a < b THEN b ELSE a

\* [u8; CHANNELS] of zeros
ZeroPx(C) == [c \in 1..C |-> 0]

\* whether i indexes buf
InRange(buf, i) == i >= 0 /\ i < Len(buf)

\* buf.get_unchecked(i): the pixel, or anything (here zeros) out of range
Px(buf, C, i) == IF InRange(buf, i) THEN buf[i + 1] ELSE ZeroPx(C)

\* floor(sqrt(a / b)), a >= 0, b > 0
FloorSqrt(a, b) == CHOOSE k \in 0..(a + 1) : k * k * b <= a /\ (k + 1) * (k + 1) * b > a

\* f32::round (half away from zero) of num / den, then `as usize` (saturating)
RoundToUsize(num, den) ==
    LET n == IF den < 0 THEN -num ELSE num
        d == IF den < 0 THEN -den ELSE den
    IN IF n <= 0 THEN 0 ELSE (2 * n + d) \div (2 * d)

\* round(vals as f32 * iarr) as u8: to nearest (2r+1 is odd, there is no tie),
\* the cast saturating
RoundToU8(v, r) ==
    LET d == 2 * r + 1
        q == (2 * v + d) \div (2 * d)
    IN IF q < 0 THEN 0 ELSE IF q > 255 THEN 255 ELSE q

\* ------------------------------------------------------- the planner
\* create_box_gauss with the branches of `if i < m` exchanged
create_box_gauss_swapped(s4, N) ==
    IF s4 > 0
    THEN LET w_floor == FloorSqrt(12 * s4 * s4, 16 * N) + 1
             wl == IF w_floor % 2 = 0 THEN w_floor - 1 ELSE w_floor
             wu == wl + 2
             m_num == 12 * s4 * s4 - 16 * N * wl * wl - 64 * N * wl - 48 * N
             m_den == 16 * (-4 * wl - 4)
             m == RoundToUsize(m_num, m_den)
         IN [i \in 1..N |-> IF i - 1 < m THEN wu ELSE wl]
    ELSE [i \in 1..N |-> 1]

\* create_box_gauss::<N>(sigma), sigma = sigma4 / 4.
\* w_ideal = sqrt(12 * sigma^2 / N) + 1.0; its floor is floor(sqrt) + 1.
create_box_gauss(s4, N) ==
    IF s4 > 0
    THEN LET w_floor == FloorSqrt(12 * s4 * s4, 16 * N) + 1
             wl == IF w_floor % 2 = 0 THEN w_floor - 1 ELSE w_floor
             wu == wl + 2
             \* m_ideal, numerator and denominator both times 16
             m_num == 12 * s4 * s4 - 16 * N * wl * wl - 64 * N * wl - 48 * N
             m_den == 16 * (-4 * wl - 4)
             m == RoundToUsize(m_num, m_den)
         IN [i \in 1..N |-> IF i - 1 < m THEN wl ELSE wu]
    ELSE [i \in 1..N |-> 1]

\* the radius rounded up instead of down
RadiusRoundedUp(box_size) == (box_size + 1) \div 2

\* let radius = ((box_size - 1) / 2) as usize
Radius(box_size) == (box_size - 1) \div 2

\* ------------------------------------------------------- the sweeps
\* One line (a row or a column) is swept with the record
\*   [line, ti, li, ri, vals, front, emits, reads]
\* line the row or column, ti, li, ri and vals as in the code, front the
\* buffer written, emits the writes so far (line, index, running sum, pixel)
\* and reads the reads so far (line, index).

\* the sum of the n pixels of src at ti, ti + step, ...
RECURSIVE SeedSum(_, _, _, _, _)
SeedSum(src, C, ti, step, n) ==
    IF n = 0 THEN ZeroPx(C)
    ELSE LET rest == SeedSum(src, C, ti, step, n - 1)
             bb == Px(src, C, ti + (n - 1) * step)
         IN [c \in 1..C |-> rest[c] + bb[c]]

\* frontbuf[ti][i] = round(vals[i] * iarr) as u8; ti += step
Emit(s, r, step) ==
    LET px == [c \in DOMAIN s.vals |-> RoundToU8(s.vals[c], r)]
    IN [s EXCEPT
          !.front = IF InRange(@, s.ti) THEN [@ EXCEPT ![s.ti + 1] = px] ELSE @,
          !.emits = Append(@, [line |-> s.line, ti |-> s.ti, vals |-> s.vals,
                                  px |-> px]),
          !.ti = @ + step]

\* for _ in 0..min(len, blur_radius + 1): the window's right end enters
\* (get_right / get_bottom), the first value leaves
RECURSIVE FirstLoop(_, _, _, _, _, _, _, _, _)
FirstLoop(s, n, src, C, fv, lv, last, r, step) ==
    IF n = 0 THEN s
    ELSE LET past == s.ri > last
             bb == IF past THEN lv ELSE Px(src, C, s.ri)
             t == [s EXCEPT
                     !.reads = IF past THEN @ ELSE Append(@, [line |-> s.line, i |-> s.ri]),
                     !.ri = @ + step,
                     !.vals = [c \in 1..C |-> @[c] + bb[c] - fv[c]]]
         IN FirstLoop(Emit(t, r, step), n - 1, src, C, fv, lv, last, r, step)

\* for _ in (blur_radius + 1)..(len - blur_radius): backbuf[ri] enters,
\* backbuf[li] leaves
RECURSIVE MiddleLoop(_, _, _, _, _, _)
MiddleLoop(s, n, src, C, r, step) ==
    IF n = 0 THEN s
    ELSE LET bb1 == Px(src, C, s.ri)
             bb2 == Px(src, C, s.li)
             t == [s EXCEPT
                     !.reads = @ \o <<[line |-> s.line, i |-> s.ri],
                                       [line |-> s.line, i |-> s.li]>>,
                     !.ri = @ + step,
                     !.li = @ + step,
                     !.vals = [c \in 1..C |-> @[c] + bb1[c] - bb2[c]]]
         IN MiddleLoop(Emit(t, r, step), n - 1, src, C, r, step)

\* for _ in 0..min(len - blur_radius - 1, blur_radius): the last value
\* enters, the window's left end (get_left / get_top) leaves
RECURSIVE LastLoop(_, _, _, _, _, _, _, _, _)
LastLoop(s, n, src, C, fv, lv, first, r, step) ==
    IF n = 0 THEN s
    ELSE LET before == s.li < first
             bb == IF before THEN fv ELSE Px(src, C, s.li)
             t == [s EXCEPT
                     !.reads = IF before THEN @ ELSE Append(@, [line |-> s.line, i |-> s.li]),
                     !.li = @ + step,
                     !.vals = [c \in 1..C |-> @[c] + lv[c] - bb[c]]]
         IN LastLoop(Emit(t, r, step), n - 1, src, C, fv, lv, first, r, step)

\* the emit loops with the last one a step too long
EmitLoopsLong(s, src, C, fv, lv, first, last, len, r, step) ==
    LET s1 == FirstLoop(s, Min(len, r + 1), src, C, fv, lv, last, r, step)
        s2 == MiddleLoop(s1, Max(0, (len - r) - (r + 1)), src, C, r, step)
        s3 == LastLoop(s2, Min(len - r, r), src, C, fv, lv, first, r, step)
    IN IF len > r THEN s3 ELSE s1

\* the three emit loops over one line of len pixels from first to last
EmitLoops(s, src, C, fv, lv, first, last, len, r, step) ==
    LET s1 == FirstLoop(s, Min(len, r + 1), src, C, fv, lv, last, r, step)
        s2 == MiddleLoop(s1, Max(0, (len - r) - (r + 1)), src, C, r, step)
        s3 == LastLoop(s2, Min(len - r - 1, r), src, C, fv, lv, first, r, step)
    IN IF len > r THEN s3 ELSE s1

\* whether a sweep record touched an index outside its buffers
Strayed(s, src) ==
    \/ \E k \in DOMAIN s.reads : ~InRange(src, s.reads[k].i)
    \/ \E k \in DOMAIN s.emits : ~InRange(s.front, s.emits[k].ti)

\* the short-line correction of box_blur_horz: (blur_radius - height)
HorzShort(r, wd, ht) == r - ht

\* the body of `for i in 0..height` of box_blur_horz, for row i.
\* acc is [front, emits, reads, status].
HorzRow(acc, back, C, wd, ht, r, i, chk) ==
    LET row_start == i * wd
        row_end == i * wd + wd - 1
        fv == Px(back, C, row_start)
        lv == Px(back, C, row_end)
        n0 == Min(r, wd)
        seed == SeedSum(back, C, row_start, 1, n0)
        short == HorzShort(r, wd, ht)
        vals == [c \in 1..C |-> (r + 1) * fv[c] + seed[c]
                                  + (IF r > wd THEN short * lv[c] ELSE 0)]
        ends == <<[line |-> i, i |-> row_start], [line |-> i, i |-> row_end]>>
        s0 == [line |-> i, ti |-> row_start, li |-> row_start,
               ri |-> row_start + r,
               vals |-> vals, front |-> acc.front, emits |-> acc.emits,
               reads |-> acc.reads \o ends
                           \o [j \in 1..n0 |-> [line |-> i, i |-> row_start + j - 1]]]
        s3 == EmitLoops(s0, back, C, fv, lv, row_start, row_end, wd, r, 1)
    IN IF acc.status # "ok" THEN acc
       ELSE IF row_end < 0 /\ chk THEN [acc EXCEPT !.status = "overflow"]
       ELSE IF ~InRange(back, row_start) \/ ~InRange(back, row_end)
            THEN [acc EXCEPT !.status = "oob", !.reads = @ \o ends]
       ELSE IF r > wd /\ short < 0 /\ chk
            THEN [acc EXCEPT !.status = "overflow", !.reads = s0.reads]
       ELSE [front |-> s3.front, emits |-> s3.emits, reads |-> s3.reads,
             copied |-> FALSE,
             status |-> IF Strayed(s3, back) THEN "oob" ELSE "ok"]

RECURSIVE HorzRows(_, _, _, _, _, _, _, _)
HorzRows(acc, back, C, wd, ht, r, i, chk) ==
    IF i >= ht THEN acc
    ELSE HorzRows(HorzRow(acc, back, C, wd, ht, r, i, chk),
                  back, C, wd, ht, r, i + 1, chk)

\* frontbuf.copy_from_slice(backbuf): the buffers have one length
CopyFromSlice(back) ==
    [front |-> back, emits |-> <<>>, copied |-> TRUE,
     reads |-> [j \in 1..Len(back) |-> [line |-> 0, i |-> j - 1]],
     status |-> "ok"]

\* box_blur_horz(backbuf, frontbuf, width, height, blur_radius)
box_blur_horz(back, frontbuf, C, wd, ht, r, chk) ==
    IF r = 0 THEN CopyFromSlice(back)
    ELSE HorzRows([front |-> frontbuf, emits |-> <<>>, reads |-> <<>>,
                   copied |-> FALSE, status |-> "ok"], back, C, wd, ht, r, 0, chk)

\* the short-line correction of box_blur_vert: (blur_radius - height)
VertShort(r, wd, ht) == r - ht

\* the body of `for i in 0..width` of box_blur_vert, for column i
VertCol(acc, back, C, wd, ht, r, i, chk) ==
    LET col_start == i
        col_end == i + wd * (ht - 1)
        fv == Px(back, C, col_start)
        lv == Px(back, C, col_end)
        n0 == Min(r, ht)
        seed == SeedSum(back, C, i, wd, n0)
        short == VertShort(r, wd, ht)
        vals == [c \in 1..C |-> (r + 1) * fv[c] + seed[c]
                                  + (IF r > ht THEN short * lv[c] ELSE 0)]
        ends == <<[line |-> i, i |-> col_start], [line |-> i, i |-> col_end]>>
        s0 == [line |-> i, ti |-> i, li |-> i, ri |-> i + r * wd,
               vals |-> vals, front |-> acc.front, emits |-> acc.emits,
               reads |-> acc.reads \o ends
                           \o [j \in 1..n0 |-> [line |-> i, i |-> i + (j - 1) * wd]]]
        s3 == EmitLoops(s0, back, C, fv, lv, col_start, col_end, ht, r, wd)
    IN IF acc.status # "ok" THEN acc
       ELSE IF ht < 1 /\ chk THEN [acc EXCEPT !.status = "overflow"]
       ELSE IF ~InRange(back, col_start) \/ ~InRange(back, col_end)
            THEN [acc EXCEPT !.status = "oob", !.reads = @ \o ends]
       ELSE IF r > ht /\ short < 0 /\ chk
            THEN [acc EXCEPT !.status = "overflow", !.reads = s0.reads]
       ELSE [front |-> s3.front, emits |-> s3.emits, reads |-> s3.reads,
             copied |-> FALSE,
             status |-> IF Strayed(s3, back) THEN "oob" ELSE "ok"]

RECURSIVE VertCols(_, _, _, _, _, _, _, _)
VertCols(acc, back, C, wd, ht, r, i, chk) ==
    IF i >= wd THEN acc
    ELSE VertCols(VertCol(acc, back, C, wd, ht, r, i, chk),
                  back, C, wd, ht, r, i + 1, chk)

\* box_blur_vert(backbuf, frontbuf, width, height, blur_radius)
box_blur_vert(back, frontbuf, C, wd, ht, r, chk) ==
    IF r = 0 THEN CopyFromSlice(back)
    ELSE VertCols([front |-> frontbuf, emits |-> <<>>, reads |-> <<>>,
                   copied |-> FALSE, status |-> "ok"], back, C, wd, ht, r, 0, chk)

\* the indices a sweep wrote, in order
Writes(res) ==
    IF res.copied THEN [k \in DOMAIN res.reads |-> res.reads[k].i]
    ELSE [k \in DOMAIN res.emits |-> res.emits[k].ti]

\* ------------------------------------------------------ gaussian_blur
\* box_blur(&mut backbuf, data, ..) calls box_blur_horz(backbuf, frontbuf, ..):
\* the horizontal sweep reads the scratch buffer and writes the caller's
HorzArgs == [src |-> "backbuf", dst |-> "data"]

\* the vertical sweep with its buffers exchanged
VertArgsSwapped == [src |-> "backbuf", dst |-> "data"]

\* and box_blur_vert(frontbuf, backbuf, ..): the vertical sweep reads the
\* caller's buffer and writes the scratch buffer
VertArgs == [src |-> "data", dst |-> "backbuf"]

\* gaussian_blur as a function of its arguments: the caller's buffer when it
\* returns, or the failure it ends in.  st is [data, backbuf, status].
RECURSIVE BlurPasses(_, _, _, _, _, _, _)
BlurPasses(st, bxs, k, C, wd, ht, chk) ==
    IF k > Len(bxs) \/ st.status # "ok" THEN st
    ELSE LET r == Radius(bxs[k])
             hz == box_blur_horz(st[HorzArgs.src], st[HorzArgs.dst], C, wd, ht, r, chk)
             s1 == [[st EXCEPT ![HorzArgs.dst] = hz.front] EXCEPT !.status = hz.status]
             vt == box_blur_vert(s1[VertArgs.src], s1[VertArgs.dst], C, wd, ht, r, chk)
             s2 == [[s1 EXCEPT ![VertArgs.dst] = vt.front] EXCEPT !.status = vt.status]
         IN IF hz.status # "ok" THEN s1
            ELSE BlurPasses(s2, bxs, k + 1, C, wd, ht, chk)

gaussian_blur(d, C, wd, ht, s4, chk) ==
    BlurPasses([data |-> d, backbuf |-> d, status |-> "ok"],
               create_box_gauss(s4, C), 1, C, wd, ht, chk)

\* ------------------------------------------------------------ states
\* the buffers of wd * ht pixels of C channels: a pattern of values in the
\* channels of mask, zero in the others
Buffers(C, wd, ht) ==
    { [i \in 1..(wd * ht) |-> [c \in 1..C |-> IF c \in mask THEN P[i] ELSE 0]] :
        P \in [1..(wd * ht) -> Vals],
        mask \in {m \in SUBSET (1..C) : Cardinality(m) = 1 \/ m = 1..C} }

NoSweep == [kind |-> "none", pass |-> 0, radius |-> 0, from |-> <<>>,
            emits |-> <<>>, reads |-> <<>>, writes |-> <<>>, readTags |-> {},
            status |-> "ok"]

Init ==
    /\ channels \in 1..MaxChannels
    /\ width \in 0..MaxArea
    /\ height \in 0..MaxArea
    /\ width * height <= MaxArea
    /\ sigma4 \in BlurSigmas
    /\ checked \in BOOLEAN
    /\ input \in Buffers(channels, width, height)
    /\ data = input
    /\ dataTag = [i \in 1..Len(data) |-> 0]
    /\ backbuf = <<>>
    /\ backTag = <<>>
    /\ boxes = <<>>
    /\ pass = 0
    /\ pc = "call"
    /\ err = "none"
    /\ sweep = NoSweep

\* let boxes = create_box_gauss::<CHANNELS>(blur_radius);
\* let mut backbuf = data.to_owned();
Call ==
    /\ pc = "call"
    /\ boxes' = create_box_gauss(sigma4, channels)
    /\ backbuf' = data
    /\ backTag' = dataTag
    /\ pass' = 1
    /\ pc' = "horz"
    /\ UNCHANGED <<channels, width, height, sigma4, checked, input, data,
                   dataTag, err, sweep>>

Buf(name) == IF name = "data" THEN data ELSE backbuf

Tag(name) == IF name = "data" THEN dataTag ELSE backTag

\* what a sweep leaves in the buffer named dst and in its tags, and the
\* record of the sweep; stage numbers the sweeps of the call from 1
Swept(kind, args, res, stage) ==
    LET from == Buf(args.src)
        wr == Writes(res)
        tags == [i \in DOMAIN Tag(args.dst) |->
                   IF \E k \in DOMAIN wr : wr[k] = i - 1 THEN stage
                   ELSE Tag(args.dst)[i]]
    IN /\ data' = IF args.dst = "data" THEN res.front ELSE data
       /\ backbuf' = IF args.dst = "backbuf" THEN res.front ELSE backbuf
       /\ dataTag' = IF args.dst = "data" THEN tags ELSE dataTag
       /\ backTag' = IF args.dst = "backbuf" THEN tags ELSE backTag
       /\ err' = IF res.status = "ok" THEN "none" ELSE res.status
       /\ sweep' = [kind |-> kind, pass |-> pass, radius |-> Radius(boxes[pass]),
                    from |-> from, emits |-> res.emits, reads |-> res.reads,
                    writes |-> wr,
                    readTags |-> {Tag(args.src)[res.reads[k].i + 1] :
                                    k \in {j \in DOMAIN res.reads :
                                             InRange(from, res.reads[j].i)}},
                    status |-> res.status]

\* box_blur_horz(backbuf, frontbuf, width, height, blur_radius_horz)
Horz ==
    /\ pc = "horz"
    /\ pass <= Len(boxes)
    /\ LET res == box_blur_horz(Buf(HorzArgs.src), Buf(HorzArgs.dst), channels,
                                width, height, Radius(boxes[pass]), checked)
       IN /\ Swept("horz", HorzArgs, res, 2 * pass - 1)
          /\ pc' = IF res.status = "ok" THEN "vert" ELSE "abort"
    /\ UNCHANGED <<channels, width, height, sigma4, checked, input, boxes, pass>>

\* box_blur_vert(frontbuf, backbuf, width, height, blur_radius_vert), and the
\* loop of gaussian_blur goes on to the next box
Vert ==
    /\ pc = "vert"
    /\ LET res == box_blur_vert(Buf(VertArgs.src), Buf(VertArgs.dst), channels,
                                width, height, Radius(boxes[pass]), checked)
       IN /\ Swept("vert", VertArgs, res, 2 * pass)
          /\ pc' = IF res.status = "ok" THEN "horz" ELSE "abort"
          /\ pass' = IF res.status = "ok" THEN pass + 1 ELSE pass
    /\ UNCHANGED <<channels, width, height, sigma4, checked, input, boxes>>

\* gaussian_blur returns: backbuf is dropped
Return ==
    /\ pc = "horz"
    /\ pass > Len(boxes)
    /\ pc' = "done"
    /\ backbuf' = <<>>
    /\ backTag' = <<>>
    /\ UNCHANGED <<channels, width, height, sigma4, checked, input, data,
                   dataTag, boxes, pass, err, sweep>>

Next == Call \/ Horz \/ Vert \/ Return

Spec == Init /\ [][Next]_vars

TypeOK ==
    /\ pc \in {"call", "horz", "vert", "done", "abort"}
    /\ err \in {"none", "overflow", "oob"}
    /\ Len(data) = width * height
    /\ \A i \in DOMAIN data : \A c \in 1..channels : data[i][c] \in 0..255
    /\ \A i \in DOMAIN backbuf : \A c \in 1..channels : backbuf[i][c] \in 0..255
    /\ pc = "abort" <=> err # "none"

\* the actions run gaussian_blur
RunsBlur ==
    pc \in {"done", "abort"} =>
        LET res == gaussian_blur(input, channels, width, height, sigma4, checked)
        IN /\ (pc = "done") = (res.status = "ok")
           /\ pc = "done" => data = res.data

\* the planner on its own: create_box_gauss::<N>(sigma) over a sweep of sigma
InitPlan ==
    /\ channels \in 1..MaxPasses
    /\ sigma4 \in {-4} \cup (0..MaxSigma4)
    /\ width = 0
    /\ height = 0
    /\ checked = FALSE
    /\ input = <<>>
    /\ data = <<>>
    /\ dataTag = <<>>
    /\ backbuf = <<>>
    /\ backTag = <<>>
    /\ boxes = <<>>
    /\ pass = 0
    /\ pc = "call"
    /\ err = "none"
    /\ sweep = NoSweep

SpecPlan == InitPlan /\ [][Call]_vars

\* ------------------------------------------------------------ claims
Abs(x) == IF x < 0 THEN -x ELSE x

IsUniform(buf) == \A i, j \in DOMAIN buf : buf[i] = buf[j]

\* buf after, for each width of bxs from the k-th on, one full horizontal
\* sweep and then one full vertical sweep
RECURSIVE FullPasses(_, _, _, _, _, _, _)
FullPasses(buf, bxs, k, C, wd, ht, chk) ==
    IF k > Len(bxs) THEN buf
    ELSE LET r == Radius(bxs[k])
             hz == box_blur_horz(buf, buf, C, wd, ht, r, chk).front
             vt == box_blur_vert(hz, hz, C, wd, ht, r, chk).front
         IN FullPasses(vt, bxs, k + 1, C, wd, ht, chk)

\* C1: when gaussian_blur returns, the caller's buffer holds the input with,
\* for each width of the plan in order, a horizontal and then a vertical
\* sweep applied: the last vertical sweep is in data too.
C1_FinalResultInData ==
    pc = "done" =>
        data = FullPasses(input, boxes, 1, channels, width, height, checked)

\* C2: with sigma = 0 the plan is N widths of 1, every sweep has radius 0, the
\* call does not fail and the caller's buffer is never anything but the input.
C2_IdentityAtSigmaZero ==
    sigma4 = 0 =>
        /\ err = "none"
        /\ data = input
        /\ pc # "call" => boxes = [i \in 1..channels |-> 1]
        /\ sweep.radius = 0

C2_Witness ==
    /\ sigma4 = 0
    /\ pc = "done"
    /\ channels = 2
    /\ width = 2
    /\ height = 2
    /\ data[1] # data[2]
    /\ sweep.kind = "vert"

\* C3: on a buffer whose pixels all equal v, with width and height at least 1,
\* every pixel the horizontal and the vertical sweep of a pass write is v,
\* whatever the radius.
C3_UniformStaysUniform ==
    (width >= 1 /\ height >= 1 /\ IsUniform(input) /\ sweep.pass = 1) =>
        /\ \A k \in DOMAIN sweep.emits : sweep.emits[k].px = input[1]
        /\ \A i \in DOMAIN data : data[i] = input[1]

\* the buffer of one channel that holds channel k of buf
Channel(buf, k) == [i \in DOMAIN buf |-> <<buf[i][k]>>]

\* C4: a buffer with a pattern in channel k and zero in its other channels is
\* blurred, in channel k, to what the single-channel buffer of that pattern is
\* blurred to with the same width, height and sigma.
C4_ChannelIndependent ==
    pc = "done" =>
        \A k \in 1..channels :
            (\A i \in DOMAIN input : \A c \in 1..channels : c # k => input[i][c] = 0)
            => LET one == gaussian_blur(Channel(input, k), 1, width, height,
                                        sigma4, checked)
               IN /\ one.status = "ok"
                  /\ Channel(data, k) = one.data

\* the plan as specified: w_ideal = sqrt(12 sigma^2 / N + 1), m not clamped
SpecifiedWl(s4, N) ==
    LET w_floor == FloorSqrt(12 * s4 * s4 + 16 * N, 16 * N)
    IN IF w_floor % 2 = 0 THEN w_floor - 1 ELSE w_floor

SpecifiedM(s4, N) ==
    LET wl == SpecifiedWl(s4, N)
        num == 16 * N * wl * wl + 64 * N * wl + 48 * N - 12 * s4 * s4
        den == 16 * (4 * wl + 4)
    IN IF num >= 0 THEN (2 * num + den) \div (2 * den)
       ELSE -((2 * (-num) + den) \div (2 * den))

SpecifiedPlan(s4, N) ==
    IF s4 > 0
    THEN [i \in 1..N |-> IF i - 1 < SpecifiedM(s4, N) THEN SpecifiedWl(s4, N)
                         ELSE SpecifiedWl(s4, N) + 2]
    ELSE [i \in 1..N |-> 1]

\* C5: the plan of create_box_gauss is the specified one: with
\* w_ideal = sqrt(12 sigma^2 / N + 1), wl its floor made odd, wu = wl + 2 and
\* m the rounded ideal count, 0 <= m <= N, m widths wl and then N - m widths
\* wu; N widths of 1 for sigma <= 0.
C5_PlanAsSpecified ==
    pc # "call" =>
        /\ boxes = SpecifiedPlan(sigma4, channels)
        /\ sigma4 > 0 => SpecifiedM(sigma4, channels) \in 0..channels

RECURSIVE SumSquaresLess1(_, _)
SumSquaresLess1(bxs, k) ==
    IF k = 0 THEN 0 ELSE SumSquaresLess1(bxs, k - 1) + bxs[k] * bxs[k] - 1

\* 48 * |sum((w_i^2 - 1) / 12) - sigma^2|
VarianceError48 ==
    Abs(4 * SumSquaresLess1(boxes, Len(boxes)) - 3 * sigma4 * sigma4)

\* C6 as stated: for sigma in [0.5, 50] and N = 3 the variance of the plan is
\* within 5% of sigma^2.
C6_VarianceWithin5Percent ==
    (pc # "call" /\ channels = 3 /\ sigma4 >= 2 /\ sigma4 <= 200) =>
        20 * VarianceError48 < 3 * sigma4 * sigma4

\* C6 as amended: for sigma in [0.5, 50] and N = 3 the variance of the plan
\* differs from sigma^2 by at most sigma^2, and by less than 5% of it for
\* sigma above 20.
C6_VarianceBound ==
    (pc # "call" /\ channels = 3 /\ sigma4 >= 2 /\ sigma4 <= 200) =>
        /\ VarianceError48 <= 3 * sigma4 * sigma4
        /\ sigma4 > 80 => 20 * VarianceError48 < 3 * sigma4 * sigma4

C6_Witness ==
    /\ pc # "call"
    /\ channels = 3
    /\ sigma4 = 4
    /\ boxes = <<3, 3, 3>>
    /\ VarianceError48 = 48

\* C7: with width = 0 or height = 0 the call does not fail, touches no
\* element of a buffer and leaves the caller's buffer as it was.
C7_DegenerateNoOp ==
    (width = 0 \/ height = 0) =>
        /\ err = "none"
        /\ sweep.reads = <<>>
        /\ sweep.writes = <<>>
        /\ data = input

\* C8: every pixel the horizontal sweep of pass k reads was last written by
\* the vertical sweep of pass k - 1 (by the caller, for pass 1, which reads
\* the input), and every pixel the vertical sweep of pass k reads was last
\* written by the horizontal sweep of pass k.
C8_SweepsChained ==
    /\ sweep.kind = "horz" => sweep.readTags \subseteq {2 * (sweep.pass - 1)}
    /\ (sweep.kind = "horz" /\ sweep.pass = 1) => sweep.from = input
    /\ sweep.kind = "vert" => sweep.readTags \subseteq {2 * sweep.pass - 1}

C8_Witness ==
    /\ sweep.kind = "vert"
    /\ sweep.pass = 2
    /\ sweep.radius = 1
    /\ sweep.readTags = {3}
    /\ Len(sweep.from) = 4
    /\ ~IsUniform(sweep.from)

\* the length of a line of the last sweep, and the index of its position q
LineLen == IF sweep.kind = "horz" THEN width ELSE height

LineIdx(line, q) == IF sweep.kind = "horz" THEN line * width + q ELSE line + q * width

LinePos(line, i) == IF sweep.kind = "horz" THEN i - line * width ELSE (i - line) \div width

OnLine(line, i) ==
    /\ line >= 0
    /\ IF sweep.kind = "horz" THEN line < height /\ i \div width = line
       ELSE line < width /\ i % width = line

\* the sum over d in [d0, r] of channel c of the line at clamp(p + d, 0, L - 1)
RECURSIVE WindowSum(_, _, _, _, _)
WindowSum(line, p, c, d0, r) ==
    IF d0 > r THEN 0
    ELSE sweep.from[LineIdx(line, Max(0, Min(LineLen - 1, p + d0))) + 1][c]
           + WindowSum(line, p, c, d0 + 1, r)

\* C9: in a sweep of radius r >= 1 over a buffer of width and height at least
\* 1, the running sum at each position emitted is the sum over d in [-r, r]
\* of the line's value at the position plus d clamped to the line, and the
\* byte written is that sum over 2r+1 rounded to nearest.
C9_SweepIsClampedAverage ==
    (sweep.kind # "none" /\ sweep.radius >= 1 /\ width >= 1 /\ height >= 1) =>
        \A k \in DOMAIN sweep.emits : \A c \in 1..channels :
            LET e == sweep.emits[k]
                sum == WindowSum(e.line, LinePos(e.line, e.ti), c,
                                 -sweep.radius, sweep.radius)
            IN /\ e.vals[c] = sum
               /\ e.px[c] = (2 * sum + 2 * sweep.radius + 1)
                               \div (2 * (2 * sweep.radius + 1))

====
